---- MODULE Spec2Model ----
(***************************************************************************)
(* Model of the flowsint map panel:                                        *)
(*   src/flowsint-app/src/components/map/map-panel.tsx  (MapPanel)         *)
(*   src/flowsint-app/src/components/map/map.tsx        (MapFromAddress)   *)
(*                                                                         *)
(* An optional JavaScript value is a set: {} is undefined, {v} is v.       *)
(***************************************************************************)
EXTENDS Integers, Sequences, FiniteSets, TLC

VARIABLES
  nodes,          \* useGraphStore state.nodes (map-panel.tsx:8)
  selectedNodes,  \* useGraphStore state.selectedNodes (map-panel.tsx:9)
  sketchId,       \* params?.id (map-panel.tsx:12); "" is the absent id
  locationNodes,  \* the derived point list (map-panel.tsx:17-28)
  routeCache,     \* the query cache entries of routeQuery, by query key
  observedKey,    \* the query key routeQuery's observer is attached to
  mounted,        \* MapFromAddress is in the tree
  locations,      \* prop locations (map.tsx:35)
  route,          \* prop route (map.tsx:39): its coordinates, or undefined
  centerOnFirst,  \* prop centerOnFirst (map.tsx:38)
  zoom,           \* prop zoom (map.tsx:37)
  theme,          \* useTheme().theme (map.tsx:45)
  geocode,        \* geocodeQuery of the current query key (map.tsx:47-70)
  output,         \* what the last render returned (map.tsx:265-321)
  effect,         \* what the last run of the draw effect did (map.tsx:112-263)
  widgets,        \* Leaflet maps created and not yet removed
  view,           \* the view the last draw pass left on its map
  markers,        \* the markers of the last draw pass
  polygons        \* the polygons of the last draw pass

panelVars ==
  <<nodes, selectedNodes, sketchId, locationNodes, routeCache, observedKey>>
propVars == <<locations, route, centerOnFirst, zoom, theme>>
drawVars == <<mounted, output, effect, widgets, view, markers, polygons>>
rendererVars == <<propVars, geocode, drawVars>>
vars == <<panelVars, rendererVars>>

---------------------------------------------------------------------------
(* Bounds *)
MaxNodes == 2
MaxSel == 3
MaxRequests == 2
MaxLocs == 2
MaxRetries == 1
MaxPairs == 3

\* zoom = 15 (map.tsx:37)
DefaultZoom == 15

None == {}
Some(v) == {v}
Val(x) == CHOOSE v \in x : TRUE

SeqsUpTo(S, n) == UNION {[1..k -> S] : k \in 0..n}

---------------------------------------------------------------------------
(* MapPanel: the derived point list *)

NodeTypes == {"location", "place", "building", "person"}
\* (latitude, longitude) of a node's properties: absent, 0 or another number.
NodeCoords ==
  { <<None, None>>, <<Some(1), None>>, <<Some(0), Some(1)>>,
    <<Some(0), Some(0)>>, <<Some(1), Some(1)>> }
SketchIds == {"", "s1", "s2"}

\* JavaScript truthiness of an optional number: undefined and 0 are falsy.
Truthy(x) == x # None /\ x # Some(0)

\* x || 0
OrZero(x) == IF Truthy(x) THEN Val(x) ELSE 0

\* The filter predicate of map-panel.tsx:18.
IsLocationNode(node) ==
  \/ node.nodeType = "location"
  \/ node.nodeType = "place"
  \/ node.nodeType = "building"
  \/ (Truthy(node.latitude) /\ Truthy(node.longitude))

IsOriginFlagSwapped(node, sel) ==
  Len(sel) = 2 /\ node.nodeId = sel[2].nodeId

\* map-panel.tsx:24
IsOriginFlag(node, sel) ==
  Len(sel) = 2 /\ node.nodeId = sel[1].nodeId

\* map-panel.tsx:25
IsDestinationFlag(node, sel) ==
  Len(sel) = 2 /\ node.nodeId = sel[2].nodeId

\* The mapper of map-panel.tsx:19-28 (address, label and geometry are copied
\* through and take no part in the filter or the flags).
ToPoint(node, sel) ==
  [ lat           |-> Some(OrZero(node.latitude)),
    lon           |-> Some(OrZero(node.longitude)),
    isOrigin      |-> IsOriginFlag(node, sel),
    isDestination |-> IsDestinationFlag(node, sel),
    nodeType      |-> node.nodeType ]

\* nodes.filter(...).map(...)
LocationNodes(ns, sel) ==
  LET kept == SelectSeq(ns, IsLocationNode)
  IN  [i \in 1..Len(kept) |-> ToPoint(kept[i], sel)]

---------------------------------------------------------------------------
(* MapPanel: routeQuery (map-panel.tsx:30-51) *)

\* queryKey: ['route', sketchId, selectedNodes.map((n) => n.nodeId)]
RouteKey(sk, sel) == <<sk, [i \in 1..Len(sel) |-> sel[i].nodeId]>>

\* enabled: !!sketchId && selectedNodes.length === 2
RouteEnabled(sk, sel) == sk # "" /\ Len(sel) = 2

\* Requests issued so far for a key, and over all keys.
Fetches(cache, key) == IF key \in DOMAIN cache THEN cache[key].fetches ELSE 0

RECURSIVE SumFetches(_, _)
SumFetches(cache, keys) ==
  IF keys = {} THEN 0
  ELSE LET k == CHOOSE x \in keys : TRUE
       IN  cache[k].fetches + SumFetches(cache, keys \ {k})

TotalRequests(cache) == SumFetches(cache, DOMAIN cache)

\* queryFn starts: POST /api/routing/shortest-path (map-panel.tsx:32-44).
IssueRequest(cache, key) ==
  (key :> [status |-> "fetching", fetches |-> Fetches(cache, key) + 1]) @@ cache

RetryAfterFailure(cache, key) == IssueRequest(cache, key)

\* retry: false (map-panel.tsx:50): a rejected queryFn leaves the query in error.
SettleFailure(cache, key) ==
  (key :> [status |-> "error", fetches |-> cache[key].fetches]) @@ cache

\* The observer of routeQuery after a render with sketch sk and selection sel:
\* disabled, it fetches nothing; enabled, it fetches a key with no cache entry,
\* joins a fetch in flight, and on attaching to a settled entry refetches it
\* when the entry is stale (always after an error, which holds no data;
\* after a success as the client's staleTime and gcTime decide).
ObserveRoute(sk, sel) ==
  LET key == RouteKey(sk, sel)
  IN  /\ observedKey' = key
      /\ IF ~RouteEnabled(sk, sel)
           THEN routeCache' = routeCache
         ELSE IF key \notin DOMAIN routeCache
           THEN /\ TotalRequests(routeCache) < MaxRequests
                /\ routeCache' = IssueRequest(routeCache, key)
         ELSE IF key = observedKey \/ routeCache[key].status = "fetching"
           THEN routeCache' = routeCache
         ELSE IF routeCache[key].status = "error"
           THEN /\ TotalRequests(routeCache) < MaxRequests
                /\ routeCache' = IssueRequest(routeCache, key)
         ELSE \/ routeCache' = routeCache
              \/ /\ TotalRequests(routeCache) < MaxRequests
                 /\ routeCache' = IssueRequest(routeCache, key)

---------------------------------------------------------------------------
(* MapPanel: the store and router events, each followed by a render *)

NewNode(id, t, la, lo) ==
  [nodeId |-> id, nodeType |-> t, latitude |-> la, longitude |-> lo]

\* The graph store gains a node; MapPanel re-renders.
AddNode ==
  /\ Len(nodes) < MaxNodes
  /\ \E t \in NodeTypes, c \in NodeCoords :
       nodes' = Append(nodes, NewNode(Len(nodes) + 1, t, c[1], c[2]))
  /\ locationNodes' = LocationNodes(nodes', selectedNodes)
  /\ ObserveRoute(sketchId, selectedNodes)
  /\ UNCHANGED <<selectedNodes, sketchId, rendererVars>>

\* The graph store loses its last node; MapPanel re-renders.
RemoveNode ==
  /\ Len(nodes) > 0
  /\ nodes' = SubSeq(nodes, 1, Len(nodes) - 1)
  /\ locationNodes' = LocationNodes(nodes', selectedNodes)
  /\ ObserveRoute(sketchId, selectedNodes)
  /\ UNCHANGED <<selectedNodes, sketchId, rendererVars>>

\* The user adds a node of the graph to the selection; MapPanel re-renders.
SelectNode ==
  /\ Len(selectedNodes) < MaxSel
  /\ \E i \in 1..Len(nodes) :
       selectedNodes' = Append(selectedNodes, [nodeId |-> nodes[i].nodeId])
  /\ locationNodes' = LocationNodes(nodes, selectedNodes')
  /\ ObserveRoute(sketchId, selectedNodes')
  /\ UNCHANGED <<nodes, sketchId, rendererVars>>

\* The user clears the selection; MapPanel re-renders.
ClearSelection ==
  /\ selectedNodes # <<>>
  /\ selectedNodes' = <<>>
  /\ locationNodes' = LocationNodes(nodes, selectedNodes')
  /\ ObserveRoute(sketchId, selectedNodes')
  /\ UNCHANGED <<nodes, sketchId, rendererVars>>

\* The router moves to another sketch (or to a route with no id); re-render.
SetSketch ==
  /\ \E sk \in SketchIds \ {sketchId} :
       /\ sketchId' = sk
       /\ ObserveRoute(sk, selectedNodes)
  /\ UNCHANGED <<nodes, selectedNodes, locationNodes, rendererVars>>

\* The routing request of a key in flight resolves (res.ok and res.json()).
RouteSucceeds ==
  /\ \E key \in DOMAIN routeCache :
       /\ routeCache[key].status = "fetching"
       /\ routeCache' =
            (key :> [status |-> "success", fetches |-> routeCache[key].fetches])
              @@ routeCache
  /\ UNCHANGED <<nodes, selectedNodes, sketchId, locationNodes, observedKey, rendererVars>>

\* The routing request of a key in flight fails (!res.ok, or fetch rejects).
RouteFails ==
  /\ \E key \in DOMAIN routeCache :
       /\ routeCache[key].status = "fetching"
       /\ routeCache' = SettleFailure(routeCache, key)
  /\ UNCHANGED <<nodes, selectedNodes, sketchId, locationNodes, observedKey, rendererVars>>

---------------------------------------------------------------------------
(* MapFromAddress: geocoding (map.tsx:42-108) *)

\* A LocationPoint (map.tsx:9-18). label, isOrigin and isDestination choose a
\* marker's icon and popup text only and are left out.
NewPoint(la, lo, ad, t, g) ==
  [lat |-> la, lon |-> lo, address |-> ad, nodeType |-> t, geometry |-> g]

\* JavaScript truthiness of an optional string: undefined and '' are falsy.
TruthyStr(x) == x # None /\ x # Some("")

\* The filter predicate of map.tsx:43.
NeedsGeocoding(loc) ==
  loc.lat = None /\ loc.lon = None /\ TruthyStr(loc.address)

\* map.tsx:42-44
LocationsToGeocode(locs) == SelectSeq(locs, NeedsGeocoding)

\* queryKey: ['geocode', locationsToGeocode.map((loc) => loc.address)]
GeocodeKey(locs) ==
  LET todo == LocationsToGeocode(locs)
  IN  [i \in 1..Len(todo) |-> todo[i].address]

\* enabled: locationsToGeocode.length > 0
GeocodeEnabled(locs) == Len(LocationsToGeocode(locs)) > 0

\* What the geocoding service answers for an address it knows:
\* parseFloat(json[0].lat), parseFloat(json[0].lon).
Geocoded(addr) ==
  IF addr = Some("A") THEN [lat |-> 48, lon |-> 2] ELSE [lat |-> 51, lon |-> 0]

\* What one lookup can do: a non-empty list, an empty list, a null body, or a
\* failure (fetch rejects, res.json() rejects, or json[0] of an error object).
LookupOutcomes == {"found", "empty", "absent", "throws"}

IdleQuery ==
  [status |-> "idle", next |-> 1, results |-> <<>>, outcomes |-> <<>>,
   lookups |-> {}, failures |-> 0]

\* The query of a key the cache holds no entry for: fetching when enabled.
StartQuery(locs) ==
  IF GeocodeEnabled(locs) THEN [IdleQuery EXCEPT !.status = "loading"]
  ELSE IdleQuery

\* The query after the props change from locs to newLocs: the same key keeps
\* its query, another key starts its own.
QueryFor(q, locs, newLocs) ==
  IF GeocodeKey(newLocs) = GeocodeKey(locs) THEN q ELSE StartQuery(newLocs)

\* geocodeQuery.isLoading, .isError, .data
IsLoading(q) == q.status = "loading"
IsError(q) == q.status = "error"
HasData(q) == q.status = "success"

\* One pass of the loop body of map.tsx:51-66 for an outcome that does not throw.
PushResult(q, addr, outcome) ==
  [q EXCEPT !.results = Append(@, IF outcome = "found" THEN Some(Geocoded(addr))
                                   ELSE None),
            !.outcomes = Append(@, outcome),
            !.lookups = @ \cup {addr},
            !.next = @ + 1]

\* A lookup that throws: nothing in queryFn catches it, the promise rejects.
LookupThrows(q, addr) ==
  [q EXCEPT !.status = "error", !.lookups = @ \cup {addr},
            !.outcomes = Append(@, "throws")]

\* The first index of locationsToGeocode with the address, 0 for -1.
FindIndex(todo, address) ==
  IF \E i \in 1..Len(todo) : todo[i].address = address
  THEN CHOOSE i \in 1..Len(todo) :
         /\ todo[i].address = address
         /\ \A j \in 1..(i - 1) : todo[j].address # address
  ELSE 0

\* The coordinates map.tsx:73-103 gives one location: {} is null.
CoordinatesOf(loc, locs, q) ==
  IF loc.lat # None /\ loc.lon # None
  THEN Some([lat |-> Val(loc.lat), lon |-> Val(loc.lon)])
  ELSE LET geocodeIndex == FindIndex(LocationsToGeocode(locs), loc.address)
       IN  IF geocodeIndex # 0 /\ HasData(q) THEN q.results[geocodeIndex]
           ELSE None

\* processedLocations, as the list of each location's coordinates.
ProcessedCoordinates(locs, q) ==
  [i \in 1..Len(locs) |-> CoordinatesOf(locs[i], locs, q)]

IsResolved(c) == c # None

\* validCoordinates (map.tsx:106-108)
ValidCoordinates(locs, q) ==
  LET kept == SelectSeq(ProcessedCoordinates(locs, q), IsResolved)
  IN  [i \in 1..Len(kept) |-> Val(kept[i])]

---------------------------------------------------------------------------
(* MapFromAddress: building polygons (map.tsx:195-225) *)

\* A geometry string is a sequence of tokens: a keyword, a parenthesis, a
\* comma, a blank, a two-digit numeral, or a letter.
Numerals == {"10", "20", "11", "21"}

NumeralValue(tok) ==
  CASE tok = "10" -> 10 [] tok = "20" -> 20 [] tok = "11" -> 11 [] OTHER -> 21

\* A JavaScript number, NaN or undefined.
Num(n) == <<"number", n>>
NaN == <<"NaN", 0>>
Undefined == <<"undefined", 0>>

\* Number(word): '' is 0, a run of numerals is its decimal value, anything
\* else is NaN.
RECURSIVE DecimalValue(_)
DecimalValue(word) ==
  IF word = <<>> THEN 0
  ELSE DecimalValue(SubSeq(word, 1, Len(word) - 1)) * 100
         + NumeralValue(word[Len(word)])

ToNumber(word) ==
  IF \A i \in 1..Len(word) : word[i] \in Numerals THEN Num(DecimalValue(word))
  ELSE NaN

\* str.split(sep) for a one-token separator.
RECURSIVE SplitOn(_, _)
SplitOn(str, sep) ==
  IF \E i \in 1..Len(str) : str[i] = sep
  THEN LET i == CHOOSE k \in 1..Len(str) :
                  str[k] = sep /\ \A j \in 1..(k - 1) : str[j] # sep
       IN  <<SubSeq(str, 1, i - 1)>> \o SplitOn(SubSeq(str, i + 1, Len(str)), sep)
  ELSE <<str>>

\* str.trim()
RECURSIVE Trim(_)
Trim(str) ==
  IF str # <<>> /\ str[1] = " " THEN Trim(Tail(str))
  ELSE IF str # <<>> /\ str[Len(str)] = " "
    THEN Trim(SubSeq(str, 1, Len(str) - 1))
  ELSE str

\* str.split(/\s+/)
RECURSIVE SplitBlanks(_)
SplitBlanks(str) ==
  IF \E i \in 1..Len(str) : str[i] = " "
  THEN LET i == CHOOSE k \in 1..Len(str) :
                  str[k] = " " /\ \A j \in 1..(k - 1) : str[j] # " "
           rest == SubSeq(str, i + 1, Len(str))
           skip == IF \E k \in 1..Len(rest) : rest[k] # " "
                   THEN CHOOSE k \in 1..Len(rest) :
                          rest[k] # " " /\ \A j \in 1..(k - 1) : rest[j] = " "
                   ELSE Len(rest) + 1
       IN  <<SubSeq(str, 1, i - 1)>> \o SplitBlanks(SubSeq(rest, skip, Len(rest)))
  ELSE <<str>>

\* Whether /POLYGON\s*\(\((.*?)\)\)/i matches with POLYGON at index i, and the
\* index of the '((' it matches there.
OpenAfter(wkt, i) ==
  IF \E k \in (i + 1)..Len(wkt) : wkt[k] # " "
  THEN CHOOSE k \in (i + 1)..Len(wkt) :
         wkt[k] # " " /\ \A j \in (i + 1)..(k - 1) : wkt[j] = " "
  ELSE 0

Closings(wkt, open) ==
  {k \in (open + 2)..(Len(wkt) - 1) : wkt[k] = ")" /\ wkt[k + 1] = ")"}

MatchesAt(wkt, i) ==
  /\ wkt[i] \in {"POLYGON", "polygon"}
  /\ LET open == OpenAfter(wkt, i)
     IN  /\ open # 0
         /\ open < Len(wkt)
         /\ wkt[open] = "("
         /\ wkt[open + 1] = "("
         /\ Closings(wkt, open) # {}

\* wkt.match(/POLYGON\s*\(\((.*?)\)\)/i): <<TRUE, coordMatch[1]>> for the
\* leftmost match and its shortest group, <<FALSE, <<>>>> for null.
CoordMatch(wkt) ==
  LET starts == {i \in 1..Len(wkt) : MatchesAt(wkt, i)}
  IN  IF starts = {} THEN <<FALSE, <<>>>>
      ELSE LET i == CHOOSE k \in starts : \A j \in starts : k <= j
               open == OpenAfter(wkt, i)
               close == CHOOSE k \in Closings(wkt, open) :
                          \A j \in Closings(wkt, open) : k <= j
           IN  <<TRUE, SubSeq(wkt, open + 2, close - 1)>>

\* One pair of map.tsx:206-209: [lon, lat] are the first two numbers of the
\* pair's words (undefined where a word is missing), returned as [lat, lon].
CoordPair(pair) ==
  LET nums == [i \in 1..Len(SplitBlanks(Trim(pair))) |->
                 ToNumber(SplitBlanks(Trim(pair))[i])]
      lon == IF Len(nums) >= 1 THEN nums[1] ELSE Undefined
      lat == IF Len(nums) >= 2 THEN nums[2] ELSE Undefined
  IN  <<lat, lon>>

\* coordMatch[1].split(',').map(...)
CoordPairs(group) ==
  LET parts == SplitOn(group, ",")
  IN  [i \in 1..Len(parts) |-> CoordPair(parts[i])]

\* L.polygon throws 'Invalid LatLng object' for a NaN or undefined coordinate.
LeafletAccepts(pairs) ==
  \A i \in 1..Len(pairs) : pairs[i][1][1] = "number" /\ pairs[i][2][1] = "number"

\* The body of the forEach of map.tsx:196-225 for one location: the polygon
\* added to the map as its <<lat, lon>> vertices, {} when none is added.
PolygonOf(loc) ==
  IF loc.geometry = None \/ loc.nodeType # "building" THEN None
  ELSE LET m == CoordMatch(Val(loc.geometry))
       IN  IF ~m[1] THEN None
           ELSE LET coordPairs == CoordPairs(m[2])
                IN  IF Len(coordPairs) < 3 THEN None
                    ELSE IF ~LeafletAccepts(coordPairs) THEN None
                    ELSE Some([i \in 1..Len(coordPairs) |->
                                 <<coordPairs[i][1][2], coordPairs[i][2][2]>>])

\* The polygons of one draw pass, by location.
DrawPolygons(locs) == [i \in 1..Len(locs) |-> PolygonOf(locs[i])]

---------------------------------------------------------------------------
(* MapFromAddress: the render branches and the draw effect *)

RenderOutputNoEmptyBranch(q, valid) ==
  IF IsLoading(q) THEN "loading"
  ELSE IF IsError(q) THEN "error"
  ELSE "map"

\* The return statements of map.tsx:265-321.
RenderOutput(q, valid) ==
  IF IsLoading(q) THEN "loading"
  ELSE IF IsError(q) THEN "error"
  ELSE IF Len(valid) = 0 THEN "empty"
  ELSE "map"

\* What the effect does up to L.map(mapId) (map.tsx:113-134): it returns early
\* with no coordinates; L.map throws 'Map container not found.' when the render
\* returned a placeholder, which holds no element with the map's id.
EffectRun(valid, out) ==
  IF Len(valid) = 0 THEN "skipped"
  ELSE IF out = "map" THEN "created"
  ELSE "threw"

\* route && route.coordinates && route.coordinates.length > 1 (map.tsx:228)
HasRoute(rt) == rt # None /\ Len(Val(rt)) > 1

\* The view the pass leaves (map.tsx:227-258): the route's fitBounds comes
\* first, the 'Set map view' chain runs after it in the same pass.
DrawView(valid, rt, cof) ==
  LET afterRoute == IF HasRoute(rt) THEN "routeBounds" ELSE "unset"
  IN  IF cof /\ Len(valid) > 0 THEN "centerOnFirst"
      ELSE IF Len(valid) > 1 THEN "fitMarkers"
      ELSE IF Len(valid) = 1 THEN "centerOnSingle"
      ELSE afterRoute

\* The markers of map.tsx:166-193: one per location with coordinates.
DrawMarkers(valid) == valid

CleanupSkipped(w) == w

\* The cleanup the previous effect run returned (map.tsx:260-262): map.remove()
\* of the map it created; a run that returned early or threw returned none.
Cleanup(w) == IF w > 0 THEN w - 1 ELSE w

\* A render of MapFromAddress with the given props and query, then the effect:
\* validCoordinates is a new array in every render, so the dependencies of
\* map.tsx:263 always differ and the previous cleanup and the effect both run.
\* An effect that throws is an unhandled failure: React unmounts the tree.
Render(locs, rt, cof, q) ==
  \E valid \in {ValidCoordinates(locs, q)} :
    LET out == RenderOutput(q, valid)
        eff == EffectRun(valid, out)
    IN  /\ effect' = eff
        /\ mounted' = (eff # "threw")
        /\ output' = IF eff = "threw" THEN "none" ELSE out
        /\ widgets' = Cleanup(widgets) + (IF eff = "created" THEN 1 ELSE 0)
        /\ view' = IF eff = "created" THEN DrawView(valid, rt, cof) ELSE "none"
        /\ markers' = IF eff = "created" THEN DrawMarkers(valid) ELSE <<>>
        /\ polygons' = IF eff = "created" THEN DrawPolygons(locs) ELSE <<>>

\* The component is mounted with its current props; the cache holds no query.
Mount ==
  /\ ~mounted
  /\ geocode' = StartQuery(locations)
  /\ Render(locations, route, centerOnFirst, geocode')
  /\ UNCHANGED <<propVars, panelVars>>

\* The component is removed: React runs the last effect's cleanup.
Unmount ==
  /\ mounted
  /\ mounted' = FALSE
  /\ widgets' = Cleanup(widgets)
  /\ output' = "none"
  /\ effect' = "skipped"
  /\ view' = "none"
  /\ markers' = <<>>
  /\ polygons' = <<>>
  /\ geocode' = IdleQuery
  /\ UNCHANGED <<propVars, panelVars>>

PointKinds ==
  { NewPoint(c[1], c[2], ad, "place", None) :
      c \in {<<None, None>>, <<Some(1), Some(2)>>, <<Some(1), None>>},
      ad \in {None, Some("A"), Some("B")} }

\* The parent passes a list with one more point.
AddLocation ==
  /\ mounted
  /\ Len(locations) < MaxLocs
  /\ \E pt \in PointKinds : locations' = Append(locations, pt)
  /\ geocode' = QueryFor(geocode, locations, locations')
  /\ Render(locations', route, centerOnFirst, geocode')
  /\ UNCHANGED <<route, centerOnFirst, zoom, theme, panelVars>>

\* The parent passes a list without its last point.
RemoveLocation ==
  /\ mounted
  /\ Len(locations) > 0
  /\ locations' = SubSeq(locations, 1, Len(locations) - 1)
  /\ geocode' = QueryFor(geocode, locations, locations')
  /\ Render(locations', route, centerOnFirst, geocode')
  /\ UNCHANGED <<route, centerOnFirst, zoom, theme, panelVars>>

RouteValues ==
  { None, Some(<< <<0, 0>> >>), Some(<< <<0, 0>>, <<1, 1>> >>) }

\* The parent passes another route (or none).
SetRoute ==
  /\ mounted
  /\ \E rt \in RouteValues \ {route} :
       /\ route' = rt
       /\ Render(locations, rt, centerOnFirst, geocode)
  /\ UNCHANGED <<locations, centerOnFirst, zoom, theme, geocode, panelVars>>

\* The parent flips centerOnFirst.
SetCenterOnFirst ==
  /\ mounted
  /\ centerOnFirst' = ~centerOnFirst
  /\ Render(locations, route, centerOnFirst', geocode)
  /\ UNCHANGED <<locations, route, zoom, theme, geocode, panelVars>>

\* The parent passes another zoom level.
SetZoom ==
  /\ mounted
  /\ zoom' = IF zoom = DefaultZoom THEN DefaultZoom - 1 ELSE DefaultZoom
  /\ Render(locations, route, centerOnFirst, geocode)
  /\ UNCHANGED <<locations, route, centerOnFirst, theme, geocode, panelVars>>

\* The theme provider switches theme.
SetTheme ==
  /\ mounted
  /\ theme' = IF theme = "dark" THEN "light" ELSE "dark"
  /\ Render(locations, route, centerOnFirst, geocode)
  /\ UNCHANGED <<locations, route, centerOnFirst, zoom, geocode, panelVars>>

\* The next lookup of the batch in flight answers without throwing; the batch
\* resolves with its last lookup and the component re-renders.
GeocodeLookup ==
  /\ mounted
  /\ IsLoading(geocode)
  /\ LET todo == LocationsToGeocode(locations)
         addr == todo[geocode.next].address
     IN  \E outcome \in LookupOutcomes \ {"throws"} :
           LET q == PushResult(geocode, addr, outcome)
           IN  IF q.next > Len(todo)
               THEN /\ geocode' = [q EXCEPT !.status = "success"]
                    /\ Render(locations, route, centerOnFirst, geocode')
               ELSE /\ geocode' = q
                    /\ UNCHANGED drawVars
  /\ UNCHANGED <<propVars, panelVars>>

\* The next lookup of the batch in flight throws: the query client runs
\* queryFn again from the first address while its retry option allows, and
\* then settles the query as failed; the component re-renders.
GeocodeLookupThrows ==
  /\ mounted
  /\ IsLoading(geocode)
  /\ LET todo == LocationsToGeocode(locations)
         addr == todo[geocode.next].address
         q == LookupThrows(geocode, addr)
     IN  \/ /\ geocode.failures < MaxRetries
            /\ geocode' = [IdleQuery EXCEPT !.status = "loading",
                                            !.lookups = q.lookups,
                                            !.failures = geocode.failures + 1]
            /\ UNCHANGED drawVars
         \/ /\ geocode' = q
            /\ Render(locations, route, centerOnFirst, geocode')
  /\ UNCHANGED <<propVars, panelVars>>

---------------------------------------------------------------------------
(* Geometry strings for the building polygons *)

RECURSIVE JoinWith(_, _)
JoinWith(parts, sep) ==
  IF parts = <<>> THEN <<>>
  ELSE IF Len(parts) = 1 THEN parts[1]
  ELSE parts[1] \o <<sep>> \o JoinWith(Tail(parts), sep)

PairForms ==
  { <<"10", " ", "20">>, <<"11", " ", "21">>, <<" ", "10", " ", " ", "20">>,
    <<"10">>, <<"x", " ", "20">>, <<"10", " ", "20", " ", "21">>, <<>> }

\* The strings with at most n pairs between the parentheses.
Geometries(n) ==
  { pre \o kw \o gap \o open \o JoinWith(pairs, ",") \o close \o post :
      pre \in {<<>>, <<"x">>},
      kw \in {<<"POLYGON">>, <<"polygon">>, <<"LINESTRING">>},
      gap \in {<<>>, <<" ">>},
      open \in {<<"(", "(">>, <<"(">>},
      pairs \in SeqsUpTo(PairForms, n),
      close \in {<<")", ")">>, <<")">>},
      post \in {<<>>, <<"x">>} }

\* POLYGON((10 20, 11 21, 10 20)) and three strings that are no polygon.
SampleGeometries ==
  { <<"POLYGON", "(", "(", "10", " ", "20", ",", "11", " ", "21", ",",
      "10", " ", "20", ")", ")">>,
    <<"POLYGON", "(", "(", "10", " ", "20", ",", "x", " ", "21", ",",
      "10", " ", "20", ")", ")">>,
    <<"POLYGON", "(", "(", "10", " ", "20", ",", "11", " ", "21", ")", ")">>,
    <<"LINESTRING", "(", "10", " ", "20", ",", "11", " ", "21", ")">> }

Building(g) == NewPoint(Some(1), Some(2), None, "building", g)

\* The location lists of the draw passes checked, for strings of at most n pairs.
PolygonInputs(n) ==
  {<<Building(Some(g))>> : g \in Geometries(n)}
    \cup {<<Building(Some(g)), Building(Some(h))>> :
            g \in SampleGeometries, h \in SampleGeometries}
    \cup {<<NewPoint(Some(1), Some(2), None, "place", Some(g)), Building(None)>> :
            g \in SampleGeometries}

---------------------------------------------------------------------------
\* Two location nodes of a loaded sketch.
TwoNodes ==
  << NewNode(1, "location", Some(1), Some(1)),
     NewNode(2, "place", None, None) >>

\* MapFromAddress before it is mounted, with the props MapPanel passes when
\* the graph holds no location (map-panel.tsx:64-67) and the defaults of
\* map.tsx:36-38.
InitRenderer ==
  /\ mounted = FALSE
  /\ locations = <<>>
  /\ route = None
  /\ centerOnFirst = TRUE
  /\ zoom = DefaultZoom
  /\ theme = "light"
  /\ geocode = IdleQuery
  /\ output = "none"
  /\ effect = "skipped"
  /\ widgets = 0
  /\ view = "none"
  /\ markers = <<>>
  /\ polygons = <<>>

\* MapPanel mounted on a route with no sketch id, over an empty graph.
InitPanel ==
  /\ nodes = <<>>
  /\ selectedNodes = <<>>
  /\ sketchId = ""
  /\ locationNodes = <<>>
  /\ routeCache = <<>>
  /\ observedKey = RouteKey("", <<>>)
  /\ InitRenderer

NextPanel == AddNode \/ RemoveNode \/ SelectNode \/ ClearSelection

SpecPanel == InitPanel /\ [][NextPanel]_vars

\* MapPanel mounted on a sketch (or on a route with no id) whose graph is loaded.
InitRoute ==
  /\ nodes = TwoNodes
  /\ selectedNodes = <<>>
  /\ sketchId \in SketchIds
  /\ locationNodes = LocationNodes(TwoNodes, <<>>)
  /\ routeCache = <<>>
  /\ observedKey = RouteKey(sketchId, <<>>)
  /\ InitRenderer

NextRoute ==
  SelectNode \/ ClearSelection \/ SetSketch \/ RouteSucceeds \/ RouteFails

SpecRoute == InitRoute /\ [][NextRoute]_vars

\* MapFromAddress under changing props and geocoding answers.
InitRender ==
  /\ nodes = <<>>
  /\ selectedNodes = <<>>
  /\ sketchId = ""
  /\ locationNodes = <<>>
  /\ routeCache = <<>>
  /\ observedKey = RouteKey("", <<>>)
  /\ InitRenderer

NextRender ==
  \/ Mount \/ Unmount \/ AddLocation \/ RemoveLocation \/ SetRoute
  \/ SetCenterOnFirst \/ SetZoom \/ SetTheme \/ GeocodeLookup
  \/ GeocodeLookupThrows

SpecRender == InitRender /\ [][NextRender]_vars

\* MapFromAddress mounted over building points with geometry strings.
InitPolygon ==
  /\ nodes = <<>>
  /\ selectedNodes = <<>>
  /\ sketchId = ""
  /\ locationNodes = <<>>
  /\ routeCache = <<>>
  /\ observedKey = RouteKey("", <<>>)
  /\ mounted = FALSE
  /\ locations \in PolygonInputs(MaxPairs)
  /\ route = None
  /\ centerOnFirst = TRUE
  /\ zoom = DefaultZoom
  /\ theme = "light"
  /\ geocode = IdleQuery
  /\ output = "none"
  /\ effect = "skipped"
  /\ widgets = 0
  /\ view = "none"
  /\ markers = <<>>
  /\ polygons = <<>>

NextPolygon == Mount \/ SetTheme \/ Unmount

SpecPolygon == InitPolygon /\ [][NextPolygon]_vars

---------------------------------------------------------------------------
(* The claims *)

HasBothCoordinates(node) == node.latitude # None /\ node.longitude # None

QualifiesForMap(node) ==
  node.nodeType \in {"location", "place", "building"} \/ HasBothCoordinates(node)

\* C1: the derived point list holds exactly one point per node whose type is
\* location, place or building or that carries both a latitude and a longitude
\* (0 included), no other point, in the nodes' order.
C1_PointsAreQualifyingNodes ==
  LET wanted == SelectSeq(nodes, QualifiesForMap)
  IN  /\ Len(locationNodes) = Len(wanted)
      /\ \A i \in 1..Len(locationNodes) :
           /\ i <= Len(wanted)
           /\ locationNodes[i].nodeType = wanted[i].nodeType
           /\ locationNodes[i].lat = Some(OrZero(wanted[i].latitude))
           /\ locationNodes[i].lon = Some(OrZero(wanted[i].longitude))

\* C2: with a selection of other than 2 nodes no point is flagged origin or
\* destination; with exactly 2, the point of the first selected node is the
\* origin, the point of the second the destination, and no other point
\* carries either flag.
C2_OriginDestinationFlags ==
  LET kept == SelectSeq(nodes, IsLocationNode)
  IN  /\ Len(locationNodes) = Len(kept)
      /\ \A i \in 1..Len(locationNodes) :
           IF Len(selectedNodes) # 2
           THEN ~locationNodes[i].isOrigin /\ ~locationNodes[i].isDestination
           ELSE /\ locationNodes[i].isOrigin
                     = (kept[i].nodeId = selectedNodes[1].nodeId)
                /\ locationNodes[i].isDestination
                     = (kept[i].nodeId = selectedNodes[2].nodeId)

\* Two nodes are selected, one point is the origin only and another the
\* destination only.
C2_Witness ==
  /\ Len(selectedNodes) = 2
  /\ \E i, j \in 1..Len(locationNodes) :
       /\ locationNodes[i].isOrigin /\ ~locationNodes[i].isDestination
       /\ locationNodes[j].isDestination /\ ~locationNodes[j].isOrigin

CurrentKey == RouteKey(sketchId, selectedNodes)

\* C3 as stated: no request is issued for a selection of other than 2 nodes,
\* and while exactly 2 are selected the request of the key (sketchId,
\* [id1, id2]) has been issued exactly once, as has every key's.
C3_OncePerDistinctKey ==
  /\ \A key \in DOMAIN routeCache :
       Len(key[2]) = 2 /\ routeCache[key].fetches = 1
  /\ Len(selectedNodes) = 2 => Fetches(routeCache, CurrentKey) = 1

\* C3 as amended: a request is issued only for a key with a sketch id and
\* exactly 2 selected nodes; whenever such a key is the current one its request
\* has been issued; and a step issues a request only for the key it makes
\* current, once: none while the key stays current, so none after a failure.
C3_RequestOnKeyActivation ==
  /\ [](\A key \in DOMAIN routeCache : key[1] # "" /\ Len(key[2]) = 2)
  /\ [](RouteEnabled(sketchId, selectedNodes)
          => Fetches(routeCache, CurrentKey) >= 1)
  /\ [][\A key \in DOMAIN routeCache' :
          Fetches(routeCache', key) # Fetches(routeCache, key)
            => /\ key = CurrentKey'
               /\ key # CurrentKey
               /\ Fetches(routeCache', key) = Fetches(routeCache, key) + 1]_vars

\* The current key's only request failed and stays failed, beside another key.
C3_Witness ==
  /\ RouteEnabled(sketchId, selectedNodes)
  /\ routeCache[CurrentKey].status = "error"
  /\ routeCache[CurrentKey].fetches = 1
  /\ Cardinality(DOMAIN routeCache) > 1

HasCoordinates(loc) == loc.lat # None /\ loc.lon # None
HasAddressOnly(loc) == loc.lat = None /\ loc.lon = None /\ TruthyStr(loc.address)

\* C4: a lookup is made only for the address of a point without coordinates,
\* and once the geocoding query has settled every point that has an address
\* and no coordinates has had its address looked up.
C4_LookupIffAddressWithoutCoordinates ==
  /\ \A addr \in geocode.lookups :
       \E i \in 1..Len(locations) :
         locations[i].address = addr /\ ~HasCoordinates(locations[i])
  /\ geocode.status \in {"success", "error"}
       => \A i \in 1..Len(locations) :
            HasAddressOnly(locations[i])
              => locations[i].address \in geocode.lookups

NoneResolved == Len(ValidCoordinates(locations, geocode)) = 0

\* C5 as stated: with no resolved coordinates the output is the 'No location
\* to display' placeholder, whatever the geocoding query's state.
C5_EmptyAlwaysPlaceholder ==
  mounted /\ NoneResolved => output = "empty"

\* C5 as amended: with no resolved coordinates the output is the loading
\* placeholder while geocoding is in progress, the error placeholder after it
\* failed, and the 'No location to display' placeholder otherwise.
C5_EmptyPlaceholderAfterLoadingAndError ==
  mounted /\ NoneResolved
    => output = IF IsLoading(geocode) THEN "loading"
                ELSE IF IsError(geocode) THEN "error"
                ELSE "empty"

\* Geocoding succeeded with no coordinate for any point, a route is supplied,
\* and the empty placeholder is shown.
C5_Witness ==
  /\ mounted
  /\ NoneResolved
  /\ HasData(geocode)
  /\ HasRoute(route)
  /\ output = "empty"

NotBlank(tok) == tok # " "

\* lon lat: two numerals with blanks between them, and only blanks around.
IsLonLat(piece) ==
  LET toks == SelectSeq(piece, NotBlank)
  IN  /\ Len(toks) = 2
      /\ toks[1] \in Numerals /\ toks[2] \in Numerals
      /\ \E i \in 1..Len(piece) :
           piece[i] = toks[1] /\ i < Len(piece) /\ piece[i + 1] = " "

\* The tokens between POLYGON(( and )) when the whole string has that form.
RingOf(g) ==
  IF \E n \in 0..Len(g) :
       /\ Len(g) >= n + 5
       /\ g[1] \in {"POLYGON", "polygon"}
       /\ \A k \in 2..(n + 1) : g[k] = " "
       /\ g[n + 2] = "(" /\ g[n + 3] = "("
       /\ g[Len(g) - 1] = ")" /\ g[Len(g)] = ")"
  THEN LET n == CHOOSE m \in 0..Len(g) :
                  (\A k \in 2..(m + 1) : g[k] = " ") /\ g[m + 2] = "("
       IN  Some(SubSeq(g, n + 4, Len(g) - 2))
  ELSE None

\* The vertices the claim expects of a geometry string: {} for no polygon.
ExpectedPolygon(g) ==
  IF RingOf(g) = None THEN None
  ELSE LET pieces == SplitOn(Val(RingOf(g)), ",")
       IN  IF Len(pieces) >= 3 /\ \A i \in 1..Len(pieces) : IsLonLat(pieces[i])
           THEN Some([i \in 1..Len(pieces) |->
                  LET toks == SelectSeq(pieces[i], NotBlank)
                  IN  <<NumeralValue(toks[2]), NumeralValue(toks[1])>>])
           ELSE None

\* C6: in a draw pass, a building point whose geometry has the form
\* POLYGON((lon lat, ...)) with at least 3 well-formed pairs gets exactly the
\* polygon of its pairs, in order, as (lat, lon); one whose geometry does not
\* have the form, is malformed or has fewer than 3 pairs gets none, and the
\* other points of the pass get theirs.
C6_PolygonIffWellFormed ==
  effect = "created"
    => /\ Len(polygons) = Len(locations)
       /\ \A i \in 1..Len(locations) :
            locations[i].nodeType = "building" /\ locations[i].geometry # None
              => polygons[i] = ExpectedPolygon(Val(locations[i].geometry))

\* C7: a draw pass with a route of at least two coordinate pairs leaves the
\* view on the route's padded bounds, and the point-based view rules apply
\* only in a pass without such a route.
C7_RouteBoundsAreFinalView ==
  effect = "created"
    => IF HasRoute(route) THEN view = "routeBounds"
       ELSE view \in {"centerOnFirst", "fitMarkers", "centerOnSingle"}

\* C8: a settled geocoding batch has succeeded, holds one result per address
\* in input order, null exactly for the lookups that failed or returned an
\* empty or absent list, and every resolved address has its marker.
C8_FailedLookupYieldsNullOnly ==
  geocode.status \in {"success", "error"}
    => LET todo == LocationsToGeocode(locations)
       IN  /\ geocode.status = "success"
           /\ Len(geocode.results) = Len(todo)
           /\ \A i \in 1..Len(todo) :
                /\ geocode.results[i]
                     = IF geocode.outcomes[i] = "found"
                       THEN Some(Geocoded(todo[i].address)) ELSE None
                /\ geocode.outcomes[i] = "found" /\ mounted
                     => \E m \in 1..Len(markers) :
                          markers[m] = Geocoded(todo[i].address)

\* C9: at most one map widget is live at any time, the widget of the last
\* draw pass, and none once the component is removed.
C9_AtMostOneWidget ==
  /\ widgets <= 1
  /\ effect = "created" <=> widgets = 1
  /\ ~mounted => widgets = 0

\* Two points with coordinates arrived one after the other, each in a draw
\* pass of its own, and one widget is live.
C9_Witness ==
  /\ mounted
  /\ widgets = 1
  /\ Len(locations) = 2
  /\ HasCoordinates(locations[1]) /\ HasCoordinates(locations[2])
  /\ theme = "dark"

\* C10: the draw effect creates the widget only when the render returned the
\* live map surface, and never throws for want of the surface element.
C10_WidgetOnlyOnLiveSurface ==
  /\ effect # "threw"
  /\ effect = "created" => output = "map"

====
